---- MODULE Spec2Model ----
(***************************************************************************)
(* ImageGenie (src/ImageGenie.py): the four image transformations and the  *)
(* ImageTransformerApp handlers select_image, select_save_directory and    *)
(* process_image.                                                          *)
(*                                                                         *)
(* An image is a record [mode, size, data]: data maps every position       *)
(* <<x, y>> (0-based, x to the right, y downwards) to its pixel, a tuple   *)
(* of channels (three for mode "RGB", one for mode "L").  The Pillow calls *)
(* the source makes (convert, crop, getdata, ImageDraw.rectangle,          *)
(* ImageDraw.ellipse, ImageOps.grayscale, ImageOps.invert) are modelled by *)
(* what Pillow does at the call.                                           *)
(***************************************************************************)
EXTENDS Integers, Sequences, FiniteSets, TLC

VARIABLES
    image,           \* self.image: the loaded image, or None
    image_path,      \* self.image_path, or None
    save_directory,  \* self.save_directory, or None
    pixel_size_entry,\* text of self.pixel_size_entry
    transform_vars,  \* the names whose BooleanVar in self.transform_vars is set
    file_label,      \* text of self.file_label
    info_label,      \* text of self.info_label (its numbers)
    save_dir_label,  \* text of self.save_dir_label
    event,           \* the last handler that ran (or widget that was edited)
    messages,        \* message boxes it showed
    calls,           \* the transform calls it made
    saves,           \* the image.save calls it made
    displayed,       \* the windows display_image opened for it
    summary_config,  \* the text it set self.summary_label to (its parts), if any
    loaded,          \* history: the image the last successful Image.open gave, and its path
    chosen,          \* history: the last directory a directory dialog returned
    arg_image,       \* a direct call of a transformation: its image argument
    arg_pixel_size,  \* ... its pixel_size argument
    op,              \* ... which function was called last
    result           \* ... what it returned

vars == <<image, image_path, save_directory, pixel_size_entry, transform_vars,
          file_label, info_label, save_dir_label, event, messages,
          calls, saves, displayed, summary_config, loaded, chosen,
          arg_image, arg_pixel_size, op, result>>

appVars == <<image, image_path, save_directory, pixel_size_entry, transform_vars,
             file_label, info_label, save_dir_label, event, messages,
             calls, saves, displayed, summary_config, loaded, chosen>>

callVars == <<arg_image, arg_pixel_size, op, result>>

\* None where an image is expected, and None where a string is expected (a
\* string is a sequence of one-character strings, so neither is a value the
\* program can hold there)
NoImage == [mode |-> "None"]

NoString == <<"None">>

\* ------------------------------------------------------------------ bounds

MaxW == 3

MaxH == 2

MaxBlock == 4

\* ------------------------------------------------------------- arithmetic

Abs(n) == IF n < 0 THEN -n ELSE n

\* Python's a // b (floor division) for b # 0
FloorDiv(a, b) ==
    IF b > 0 THEN a \div b ELSE (-a) \div (-b)

\* the sum of channel c of the first n pixels of a sequence
RECURSIVE SumChannel(_, _, _)
SumChannel(pixels, c, n) ==
    IF n = 0 THEN 0 ELSE pixels[n][c] + SumChannel(pixels, c, n - 1)

\* Python's range(start, stop, step) as a sequence; step = 0 raises ValueError
range(start, stop, step) ==
    IF step > 0
    THEN IF stop <= start THEN <<>>
         ELSE [i \in 1..(((stop - start - 1) \div step) + 1) |-> start + (i - 1) * step]
    ELSE IF stop >= start THEN <<>>
         ELSE [i \in 1..(((start - stop - 1) \div (-step)) + 1) |-> start + (i - 1) * step]

\* ------------------------------------------------------------------ Pillow

Positions(w, h) == (0..(w - 1)) \X (0..(h - 1))

\* Image.new("RGB", size, color)
Image_new(w, h, color) ==
    [mode |-> "RGB", size |-> <<w, h>>, data |-> [p \in Positions(w, h) |-> color]]

\* image.convert("RGB"): a new image; an "L" pixel v becomes (v, v, v)
convert_RGB(im) ==
    IF im.mode = "RGB" THEN im
    ELSE [mode |-> "RGB", size |-> im.size,
          data |-> [p \in DOMAIN im.data |->
                      <<im.data[p][1], im.data[p][1], im.data[p][1]>>]]

\* Pillow's RGB -> L: (19595 R + 38470 G + 7471 B + 0x8000) >> 16
L24(px) == (px[1] * 19595 + px[2] * 38470 + px[3] * 7471 + 32768) \div 65536

\* image.convert("L")
convert_L(im) ==
    IF im.mode = "L" THEN im
    ELSE [mode |-> "L", size |-> im.size,
          data |-> [p \in DOMAIN im.data |-> <<L24(im.data[p])>>]]

\* the positions image.crop(box) copies: box[1] <= x < box[3], box[2] <= y < box[4]
crop_region(box) == (box[1]..(box[3] - 1)) \X (box[2]..(box[4] - 1))

\* image.crop(box): an image of the size of the box; the part of the region
\* that lies outside the image is filled with zeros
crop(im, box) ==
    LET w == box[3] - box[1]
        h == box[4] - box[2]
    IN [mode |-> im.mode, size |-> <<w, h>>,
        data |-> [p \in Positions(w, h) |->
                    LET q == <<p[1] + box[1], p[2] + box[2]>>
                    IN IF q \in DOMAIN im.data THEN im.data[q]
                       ELSE [c \in 1..Len(im.data[<<0, 0>>]) |-> 0]]]

\* list(image.getdata()): the pixels, row by row
getdata(im) ==
    LET w == im.size[1]
        h == im.size[2]
    IN [i \in 1..(w * h) |-> im.data[<<(i - 1) % w, (i - 1) \div w>>]]

\* ImageDraw.rectangle(box, fill): both corners of the box are inside it
rectangle_pixels(box) == (box[1]..box[3]) \X (box[2]..box[4])

rectangle(im, box, fill) ==
    LET inside == rectangle_pixels(box)
    IN [im EXCEPT !.data = [p \in DOMAIN im.data |->
                              IF p \in inside THEN fill ELSE im.data[p]]]

\* Pillow's libImaging/Draw.c, quarter_delta: how far (x, y) is from the
\* ellipse with axes a, b (in half-pixel units)
quarter_delta(a, b, x, y) ==
    Abs(a * a * y * y + b * b * x * x - a * a * b * b)

\* quarter_next: the point after (cx, cy) on the quarter's outline
quarter_next(a, b, cx, cy) ==
    LET d1 == quarter_delta(a, b, cx, cy + 2)
        d2 == quarter_delta(a, b, cx - 2, cy + 2)
        d3 == quarter_delta(a, b, cx - 2, cy)
    IN IF cx > 1
       THEN IF d1 > d2
            THEN IF d2 > d3 THEN <<cx - 2, cy>> ELSE <<cx - 2, cy + 2>>
            ELSE IF d1 > d3 THEN <<cx - 2, cy>> ELSE <<cx, cy + 2>>
       ELSE <<cx, cy + 2>>

\* ellipse_next: the right end of row Y, the x of the first outline point
\* that has cy = Y, walking from (a, b % 2)
RECURSIVE quarter_row(_, _, _, _, _)
quarter_row(a, b, cx, cy, Y) ==
    IF cy = Y THEN cx
    ELSE IF cx = a % 2 /\ cy = b THEN 0
    ELSE LET n == quarter_next(a, b, cx, cy)
         IN quarter_row(a, b, n[1], n[2], Y)

\* ImageDraw.ellipse(box, fill): the pixels of the filled ellipse
ellipse_pixels(box) ==
    LET a == box[3] - box[1]
        b == box[4] - box[2]
        rows == {Y \in 0..b : Y % 2 = b % 2}
    IN IF a < 0 \/ b < 0 THEN {}
       ELSE UNION {
              LET r == quarter_row(a, b, a, b % 2, Y)
              IN ((box[1] + ((a - r) \div 2))..(box[1] + ((a + r) \div 2)))
                    \X {box[2] + ((b - Y) \div 2), box[2] + ((b + Y) \div 2)}
              : Y \in rows}

ellipse(im, box, fill) ==
    LET inside == ellipse_pixels(box)
    IN [im EXCEPT !.data = [p \in DOMAIN im.data |->
                              IF p \in inside THEN fill ELSE im.data[p]]]

\* ImageOps.invert: the lookup table [255 - i for i in range(256)]
invert_lut == [i \in 0..255 |-> 255 - i]

ImageOps_invert(im) ==
    [im EXCEPT !.data = [p \in DOMAIN im.data |->
                           [c \in DOMAIN im.data[p] |-> invert_lut[im.data[p][c]]]]]

\* ImageOps.grayscale
ImageOps_grayscale(im) == convert_L(im)

\* -------------------------------------------------- transformation functions

\* the loops "for y in range(0, height, pixel_size): for x in range(0, width,
\* pixel_size)": the block origins <<x, y>> in the order the loops visit them
block_origins(width, height, pixel_size) ==
    LET ys == range(0, height, pixel_size)
        xs == range(0, width, pixel_size)
    IN [i \in 1..(Len(ys) * Len(xs)) |->
          <<xs[((i - 1) % Len(xs)) + 1], ys[((i - 1) \div Len(xs)) + 1]>>]

\* box = (x, y, x + pixel_size, y + pixel_size)
block_box(x, y, pixel_size) == <<x, y, x + pixel_size, y + pixel_size>>

\* block = image.crop(box); pixels = list(block.getdata());
\* avg_color = tuple(sum(channel) // num_pixels for channel in zip(*pixels))
avg_color(im, box) ==
    LET pixels == getdata(crop(im, box))
        num_pixels == Len(pixels)
    IN [c \in 1..3 |-> SumChannel(pixels, c, num_pixels) \div num_pixels]

\* one pass of the loop body of pixelate_image for each origin from the i-th on
RECURSIVE pixelate_loop(_, _, _, _, _)
pixelate_loop(im, pixelated_image, origins, pixel_size, i) ==
    IF i > Len(origins) THEN pixelated_image
    ELSE LET box == block_box(origins[i][1], origins[i][2], pixel_size)
         IN pixelate_loop(im, rectangle(pixelated_image, box, avg_color(im, box)),
                          origins, pixel_size, i + 1)

\* pixelate_image(image, pixel_size), pixel_size # 0
pixelate_image(image0, pixel_size) ==
    LET im == convert_RGB(image0)
        width == im.size[1]
        height == im.size[2]
    IN pixelate_loop(im, Image_new(width, height, <<0, 0, 0>>),
                     block_origins(width, height, pixel_size), pixel_size, 1)

\* ellipse_box of the block with origin (x, y)
ellipse_box(x, y, pixel_size) ==
    LET center_x == x + FloorDiv(pixel_size, 2)
        center_y == y + FloorDiv(pixel_size, 2)
        radius == FloorDiv(pixel_size, 2)
    IN <<center_x - radius, center_y - radius, center_x + radius, center_y + radius>>

RECURSIVE dot_mosaic_loop(_, _, _, _, _)
dot_mosaic_loop(im, mosaic_image, origins, pixel_size, i) ==
    IF i > Len(origins) THEN mosaic_image
    ELSE LET x == origins[i][1]
             y == origins[i][2]
             box == block_box(x, y, pixel_size)
         IN dot_mosaic_loop(im,
                            ellipse(mosaic_image, ellipse_box(x, y, pixel_size),
                                    avg_color(im, box)),
                            origins, pixel_size, i + 1)

\* dot_mosaic_image(image, pixel_size), pixel_size # 0
dot_mosaic_image(image0, pixel_size) ==
    LET im == convert_RGB(image0)
        width == im.size[1]
        height == im.size[2]
    IN dot_mosaic_loop(im, Image_new(width, height, <<255, 255, 255>>),
                       block_origins(width, height, pixel_size), pixel_size, 1)

grayscale_image(image0) == convert_RGB(ImageOps_grayscale(image0))

\* invert_image with the conversion of grayscale_image in front
invert_image_via_L(image0) == ImageOps_invert(convert_RGB(convert_L(image0)))

invert_image(image0) == ImageOps_invert(convert_RGB(image0))

\* ------------------------------------------- the functions called directly

\* pixels of the argument images
Palette == {<<255, 255, 255>>, <<255, 0, 0>>}

GrayPalette == {<<255>>, <<100>>}

Images ==
    UNION {
      [mode : {"RGB"}, size : {<<w, h>>}, data : [Positions(w, h) -> Palette]]
        \cup [mode : {"L"}, size : {<<w, h>>}, data : [Positions(w, h) -> GrayPalette]]
      : <<w, h>> \in (1..MaxW) \X (1..MaxH)}

AppInit ==
    /\ image = NoImage
    /\ image_path = NoString
    /\ save_directory = NoString
    /\ pixel_size_entry = <<"1", "0">>
    /\ transform_vars = {}
    /\ file_label = <<"No file selected">>
    /\ info_label = [text |-> "No image loaded"]
    /\ save_dir_label = <<"No directory selected">>
    /\ summary_config = <<>>
    /\ event = "__init__"
    /\ messages = <<>>
    /\ displayed = <<>>
    /\ calls = <<>>
    /\ saves = <<>>
    /\ loaded = [image |-> NoImage, path |-> NoString]
    /\ chosen = NoString

\* a block transform is called with any image and any pixel_size >= 1
BlockCallsInit ==
    /\ AppInit
    /\ arg_image \in Images
    /\ arg_pixel_size \in 1..MaxBlock
    /\ op = "none"
    /\ result = NoImage

\* grayscale_image or invert_image is called with any image
RemapCallsInit ==
    /\ AppInit
    /\ arg_image \in Images
    /\ arg_pixel_size = 10
    /\ op = "none"
    /\ result = NoImage

CallPixelate ==
    /\ op' = "pixelate"
    /\ result' = pixelate_image(arg_image, arg_pixel_size)
    /\ UNCHANGED <<appVars, arg_image, arg_pixel_size>>

CallDotMosaic ==
    /\ op' = "dot_mosaic"
    /\ result' = dot_mosaic_image(arg_image, arg_pixel_size)
    /\ UNCHANGED <<appVars, arg_image, arg_pixel_size>>

CallGrayscale ==
    /\ op' = "grayscale"
    /\ result' = grayscale_image(arg_image)
    /\ UNCHANGED <<appVars, arg_image, arg_pixel_size>>

CallInvert ==
    /\ op' = "invert"
    /\ result' = invert_image(arg_image)
    /\ UNCHANGED <<appVars, arg_image, arg_pixel_size>>

\* invert_image applied to what invert_image returned
CallInvertAgain ==
    /\ op = "invert"
    /\ op' = "invert_invert"
    /\ result' = invert_image(result)
    /\ UNCHANGED <<appVars, arg_image, arg_pixel_size>>

BlockCallsNext ==
    \/ CallPixelate
    \/ CallDotMosaic

RemapCallsNext ==
    \/ CallGrayscale
    \/ CallInvert
    \/ CallInvertAgain

SpecBlockCalls == BlockCallsInit /\ [][BlockCallsNext]_vars

SpecRemapCalls == RemapCallsInit /\ [][RemapCallsNext]_vars

\* ------------------------------------------------ claims on the direct calls

RECURSIVE SumOver(_, _, _)
SumOver(S, data, c) ==
    IF S = {} THEN 0
    ELSE LET q == CHOOSE q \in S : TRUE
         IN data[q][c] + SumOver(S \ {q}, data, c)

\* the cell of position p: origin (b*floor(px/b), b*floor(py/b)), clipped
CellOf(p, w, h, b) ==
    LET x0 == b * (p[1] \div b)
        y0 == b * (p[2] \div b)
    IN {q \in Positions(w, h) : /\ x0 <= q[1] /\ q[1] < x0 + b
                                /\ y0 <= q[2] /\ q[2] < y0 + b}

\* per channel, the floor of the mean of the source pixels of a set of positions
MeanOver(S, src) ==
    [c \in 1..3 |-> SumOver(S, src.data, c) \div Cardinality(S)]

\* C1: the pixelated image has the size of the input and every pixel has the
\* floor of the mean of the source pixels of its cell, the cell clipped to the
\* image
C1_PixelateCellMean ==
    op = "pixelate" =>
        LET src == convert_RGB(arg_image)
            w == src.size[1]
            h == src.size[2]
        IN /\ result.size = arg_image.size
           /\ \A p \in Positions(w, h) :
                 result.data[p] = MeanOver(CellOf(p, w, h, arg_pixel_size), src)

\* C2: the boxes of the block transforms are clipped to the image, the
\* averaging reads no position outside the image, and the boxes partition
\* the image's positions
C2_BoxesClipped ==
    op \in {"pixelate", "dot_mosaic"} =>
        LET w == arg_image.size[1]
            h == arg_image.size[2]
            b == arg_pixel_size
            origins == block_origins(w, h, b)
            boxOf(i) == block_box(origins[i][1], origins[i][2], b)
        IN /\ \A i \in 1..Len(origins) :
                 /\ boxOf(i)[3] <= w
                 /\ boxOf(i)[4] <= h
                 /\ crop_region(boxOf(i)) \subseteq Positions(w, h)
           /\ \A p \in Positions(w, h) :
                 Cardinality({i \in 1..Len(origins) : p \in crop_region(boxOf(i))}) = 1

\* C3: in pixelate_image every output pixel is written by exactly one fill
C3_WrittenOnce ==
    op = "pixelate" =>
        LET w == arg_image.size[1]
            h == arg_image.size[2]
            b == arg_pixel_size
            origins == block_origins(w, h, b)
        IN \A p \in Positions(w, h) :
              Cardinality({i \in 1..Len(origins) :
                              p \in rectangle_pixels(
                                       block_box(origins[i][1], origins[i][2], b))}) = 1

\* the dot of the cell with origin o: the in-image positions whose squared
\* distance from (x + b//2, y + b//2) is at most (b//2)^2
DotOf(o, w, h, b) ==
    LET cx == o[1] + (b \div 2)
        cy == o[2] + (b \div 2)
        r == b \div 2
    IN {q \in Positions(w, h) :
          (q[1] - cx) * (q[1] - cx) + (q[2] - cy) * (q[2] - cy) <= r * r}

\* C4: the dot mosaic has the size of the input; a pixel in no cell's dot is
\* white, any other pixel has the floor-averaged colour of a cell whose dot
\* contains it
C4_DotMosaic ==
    op = "dot_mosaic" =>
        LET src == convert_RGB(arg_image)
            w == src.size[1]
            h == src.size[2]
            b == arg_pixel_size
            origins == {<<x, y>> \in Positions(w, h) : x % b = 0 /\ y % b = 0}
        IN /\ result.size = arg_image.size
           /\ \A p \in Positions(w, h) :
                 LET covering == {o \in origins : p \in DotOf(o, w, h, b)}
                 IN IF covering = {}
                    THEN result.data[p] = <<255, 255, 255>>
                    ELSE \E o \in covering :
                            result.data[p] = MeanOver(CellOf(o, w, h, b), src)

\* C9: invert_image maps every channel value c to 255 - c, and applied twice
\* it returns the RGB image it was given
C9_InvertInvolution ==
    /\ op = "invert" =>
          LET src == convert_RGB(arg_image)
          IN /\ result.size = arg_image.size
             /\ \A p \in DOMAIN src.data : \A c \in 1..3 :
                   result.data[p][c] = 255 - src.data[p][c]
    /\ op = "invert_invert" =>
          /\ result = convert_RGB(arg_image)
          /\ arg_image.mode = "RGB" => result = arg_image
    /\ op \in {"invert", "invert_invert"} =>
          \A c \in 0..255 :
             /\ invert_image(Image_new(1, 1, <<c, c, c>>)).data[<<0, 0>>]
                   = <<255 - c, 255 - c, 255 - c>>
             /\ invert_image(invert_image(Image_new(1, 1, <<c, 0, 255 - c>>)))
                   = Image_new(1, 1, <<c, 0, 255 - c>>)

\* C9 witness: invert_image was applied twice to a 3 x 2 RGB image with a red
\* and a white pixel
C9_Witness ==
    /\ op = "invert_invert"
    /\ arg_image.mode = "RGB"
    /\ arg_image.size = <<MaxW, MaxH>>
    /\ arg_image.data[<<0, 0>>] = <<255, 0, 0>>
    /\ arg_image.data[<<1, 0>>] = <<255, 255, 255>>

\* ------------------------------------------------------- strings and paths
\* A string is a sequence of one-character strings.

Digits == <<"0", "1", "2", "3", "4", "5", "6", "7", "8", "9">>

DigitValue(c) == (CHOOSE i \in 1..Len(Digits) : Digits[i] = c) - 1

IsDigit(c) == \E i \in 1..Len(Digits) : Digits[i] = c

RECURSIVE DigitsValue(_)
DigitsValue(s) ==
    IF s = <<>> THEN 0
    ELSE DigitsValue(SubSeq(s, 1, Len(s) - 1)) * 10 + DigitValue(s[Len(s)])

\* the digits of int(text): text without its sign
int_digits(text) ==
    IF text # <<>> /\ text[1] \in {"+", "-"} THEN Tail(text) ELSE text

\* int(text) raises ValueError: text is not an optional sign and then digits
int_raises(text) ==
    \/ int_digits(text) = <<>>
    \/ \E i \in 1..Len(int_digits(text)) : ~IsDigit(int_digits(text)[i])

\* int(text)
int(text) ==
    IF text # <<>> /\ text[1] = "-"
    THEN -DigitsValue(int_digits(text))
    ELSE DigitsValue(int_digits(text))

\* s[:n].rfind(c): the last index of c among the first n characters of s
\* (1-based), 0 when there is none
RECURSIVE rfind_in(_, _, _)
rfind_in(s, c, n) ==
    IF n = 0 THEN 0 ELSE IF s[n] = c THEN n ELSE rfind_in(s, c, n - 1)

\* s.rfind(c)
rfind(s, c) == rfind_in(s, c, Len(s))

\* s.rstrip("/")
RECURSIVE rstrip_sep(_)
rstrip_sep(s) ==
    IF s # <<>> /\ s[Len(s)] = "/" THEN rstrip_sep(SubSeq(s, 1, Len(s) - 1)) ELSE s

\* os.path.split(p) (posixpath): <<head, tail>>
os_path_split(p) ==
    LET i == rfind(p, "/")
        head == SubSeq(p, 1, i)
        tail == SubSeq(p, i + 1, Len(p))
    IN <<IF rstrip_sep(head) = <<>> THEN head ELSE rstrip_sep(head), tail>>

\* os.path.basename(p)
os_path_basename(p) == SubSeq(p, rfind(p, "/") + 1, Len(p))

\* os.path.splitext(p): <<root, ext>>; the extension starts at the last dot of
\* the last component, unless only dots precede that dot in the component
os_path_splitext(p) ==
    LET sepIndex == rfind(p, "/")
        dotIndex == rfind(p, ".")
    IN IF dotIndex > sepIndex
          /\ \E k \in (sepIndex + 1)..(dotIndex - 1) : p[k] # "."
       THEN <<SubSeq(p, 1, dotIndex - 1), SubSeq(p, dotIndex, Len(p))>>
       ELSE <<p, <<>>>>

\* os.path.join(a, b)
os_path_join(a, b) ==
    IF b # <<>> /\ b[1] = "/" THEN b
    ELSE IF a = <<>> \/ a[Len(a)] = "/" THEN a \o b
    ELSE a \o <<"/">> \o b

Upper == <<"A", "B", "C", "D", "E", "F", "G", "H", "I", "J", "K", "L", "M",
           "N", "O", "P", "Q", "R", "S", "T", "U", "V", "W", "X", "Y", "Z">>

Lower == <<"a", "b", "c", "d", "e", "f", "g", "h", "i", "j", "k", "l", "m",
           "n", "o", "p", "q", "r", "s", "t", "u", "v", "w", "x", "y", "z">>

lower_of == [u \in {Upper[k] : k \in 1..Len(Upper)} |->
               Lower[CHOOSE k \in 1..Len(Upper) : Upper[k] = u]]

\* s.lower()
lower(s) ==
    [i \in 1..Len(s) |-> IF s[i] \in DOMAIN lower_of THEN lower_of[s[i]] ELSE s[i]]

\* s.replace(' ', '')
remove_spaces(s) == SelectSeq(s, LAMBDA c : c # " ")

\* --------------------------------------------------------- ImageTransformerApp

\* the keys of the dict transformations (and of self.transform_vars), in the
\* order of insertion, which is the order the loop of process_image visits
transformations ==
    << <<"P", "i", "x", "e", "l", "a", "t", "e">>,
       <<"D", "o", "t", " ", "M", "o", "s", "a", "i", "c">>,
       <<"G", "r", "a", "y", "s", "c", "a", "l", "e">>,
       <<"I", "n", "v", "e", "r", "t">> >>

Pixelate == transformations[1]

DotMosaic == transformations[2]

Grayscale == transformations[3]

Invert == transformations[4]

TransformNames == {transformations[i] : i \in 1..Len(transformations)}

\* func(self.image) for the entry of transformations named transform_name
apply_transform(transform_name, im, pixel_size) ==
    CASE transform_name = Pixelate -> pixelate_image(im, pixel_size)
      [] transform_name = DotMosaic -> dot_mosaic_image(im, pixel_size)
      [] transform_name = Grayscale -> grayscale_image(im)
      [] transform_name = Invert -> invert_image(im)

\* func(self.image) raises: range() with a step of 0 raises ValueError in the
\* two block transforms; any transform raises when Pillow fails on the image
\* (the set failing: the image is decoded at its first use)
transform_raises(transform_name, pixel_size, failing) ==
    \/ transform_name \in failing
    \/ transform_name \in {Pixelate, DotMosaic} /\ pixel_size = 0

\* new_filename with base and ext taken from the whole path
new_filename_of_path(path, transform_name) ==
    LET split == os_path_splitext(path)
    IN split[1] \o <<"_">> \o lower(remove_spaces(transform_name)) \o split[2]

\* new_filename = f"{base}_{transform_name.replace(' ', '').lower()}{ext}"
new_filename(path, transform_name) ==
    LET split == os_path_splitext(os_path_basename(path))
        base == split[1]
        ext == split[2]
    IN base \o <<"_">> \o lower(remove_spaces(transform_name)) \o ext

\* directory: self.save_directory if it is set, else the directory of the image
output_directory(save_dir, path) ==
    IF save_dir # NoString /\ save_dir # <<>> THEN save_dir ELSE os_path_split(path)[1]

\* the files the dialogs can name: what Image.open gives for each path
\* (NoImage: Image.open raises)
RedWhite ==
    [mode |-> "RGB", size |-> <<3, 2>>,
     data |-> [p \in Positions(3, 2) |->
                 IF p[1] = 0 THEN <<255, 0, 0>> ELSE <<255, 255, 255>>]]

WhitePixel == [mode |-> "L", size |-> <<1, 1>>, data |-> [p \in Positions(1, 1) |-> <<255>>]]

SourceFiles ==
    { [path |-> <<"/", "p", "/", "a", ".", "p", "n", "g">>, content |-> RedWhite],
      [path |-> <<"/", "b", ".", "t", ".", "g", "z">>, content |-> WhitePixel],
      [path |-> <<"/", "p", "/", "x", ".", "b", "m", "p">>, content |-> NoImage] }

Directories == { <<"/", "o">>, <<"/">> }

EntryTexts == { <<"1", "0">>, <<"2">>, <<"0">>, <<"-", "2">>, <<"x">> }

\* Image.open(file_path); NoImage: it raises
Image_open(file_path) == (CHOOSE f \in SourceFiles : f.path = file_path).content

\* select_image; file_path is what the dialog returns ('' when cancelled)
select_image(file_path) ==
    /\ event' = "select_image"
    /\ calls' = <<>>
    /\ saves' = <<>>
    /\ displayed' = <<>>
    /\ summary_config' = <<>>
    /\ IF file_path # <<>>
       THEN IF Image_open(file_path) # NoImage
            THEN /\ image' = Image_open(file_path)
                 /\ image_path' = file_path
                 /\ file_label' = os_path_basename(file_path)
                 /\ info_label' = [width |-> image'.size[1],
                                   height |-> image'.size[2],
                                   total_pixels |-> image'.size[1] * image'.size[2]]
                 /\ loaded' = [image |-> Image_open(file_path), path |-> file_path]
                 /\ messages' = <<>>
            ELSE /\ messages' = <<[kind |-> "showerror", title |-> "Error"]>>
                 /\ UNCHANGED <<image, image_path, file_label, info_label, loaded>>
       ELSE /\ messages' = <<[kind |-> "showwarning", title |-> "File Selection"]>>
            /\ UNCHANGED <<image, image_path, file_label, info_label, loaded>>
    /\ UNCHANGED <<save_directory, pixel_size_entry, transform_vars, save_dir_label,
                   chosen, callVars>>

\* select_save_directory; directory is what the dialog returns ('' when cancelled)
select_save_directory(directory) ==
    /\ event' = "select_save_directory"
    /\ calls' = <<>>
    /\ saves' = <<>>
    /\ displayed' = <<>>
    /\ summary_config' = <<>>
    /\ IF directory # <<>>
       THEN /\ save_directory' = directory
            /\ save_dir_label' = directory
            /\ messages' = <<>>
       ELSE /\ messages' = <<[kind |-> "showwarning", title |-> "Directory Selection"]>>
            /\ UNCHANGED <<save_directory, save_dir_label>>
    /\ chosen' = IF directory # <<>> THEN directory ELSE chosen
    /\ UNCHANGED <<image, image_path, pixel_size_entry, transform_vars, file_label,
                   info_label, loaded, callVars>>

\* the user types text into self.pixel_size_entry
edit_pixel_size_entry(text) ==
    /\ text # pixel_size_entry
    /\ pixel_size_entry' = text
    /\ event' = "pixel_size_entry"
    /\ messages' = <<>>
    /\ calls' = <<>>
    /\ saves' = <<>>
    /\ displayed' = <<>>
    /\ summary_config' = <<>>
    /\ UNCHANGED <<image, image_path, save_directory, transform_vars, file_label,
                   info_label, save_dir_label, loaded, chosen, callVars>>

\* the user toggles the Checkbutton of transform_name
toggle_transform(transform_name) ==
    /\ transform_vars' = IF transform_name \in transform_vars
                         THEN transform_vars \ {transform_name}
                         ELSE transform_vars \cup {transform_name}
    /\ event' = "Checkbutton"
    /\ messages' = <<>>
    /\ calls' = <<>>
    /\ saves' = <<>>
    /\ displayed' = <<>>
    /\ summary_config' = <<>>
    /\ UNCHANGED <<image, image_path, save_directory, pixel_size_entry, file_label,
                   info_label, save_dir_label, loaded, chosen, callVars>>

\* the body of "if self.transform_vars[transform_name].get():".  acc:
\* self.image, summary_str and what the handler did so far; env: the locals
\* of process_image and, in computeFails and saveFails, the transforms whose
\* computation and whose save Pillow fails
try_transform(acc, transform_name, env) ==
    LET call == [name |-> transform_name, input |-> acc.self_image,
                 pixel_size |-> env.pixel_size,
                 raised |-> transform_raises(transform_name, env.pixel_size,
                                             env.computeFails)]
    IN IF call.raised
       THEN [acc EXCEPT
               !.calls = Append(@, call),
               !.messages = Append(@, [kind |-> "showerror",
                                       title |-> "Transformation Error",
                                       name |-> transform_name])]
       ELSE
       LET transformed_image ==
               apply_transform(transform_name, acc.self_image, env.pixel_size)
           save_path == os_path_join(env.directory,
                                     new_filename(env.image_path, transform_name))
           save == [name |-> transform_name, path |-> save_path,
                    ok |-> transform_name \notin env.saveFails,
                    content |-> transformed_image]
       IN IF ~save.ok
          THEN [acc EXCEPT
                  !.calls = Append(@, call),
                  !.saves = Append(@, save),
                  !.messages = Append(@, [kind |-> "showerror",
                                          title |-> "Save Error",
                                          name |-> transform_name])]
          ELSE [acc EXCEPT
                  !.calls = Append(@, call),
                  !.saves = Append(@, save),
                  !.summary_str = Append(@,
                      IF transform_name \in {Pixelate, DotMosaic}
                      THEN LET blocks_x == FloorDiv(env.width, env.pixel_size)
                               blocks_y == FloorDiv(env.height, env.pixel_size)
                           IN [name |-> transform_name,
                               blocks_x |-> blocks_x,
                               blocks_y |-> blocks_y,
                               total_blocks |-> blocks_x * blocks_y,
                               pixels_per_block |-> env.pixel_size * env.pixel_size]
                      ELSE [name |-> transform_name,
                            total_pixels |-> env.total_pixels]),
                  !.displayed = Append(@, transform_name)]

\* loop_body that leaves the loop at the first error
loop_body_break(acc, transform_name, env) ==
    IF transform_name \notin env.selected \/ acc.messages # <<>> THEN acc
    ELSE try_transform(acc, transform_name, env)

\* loop_body that keeps the transformed image in self.image
loop_body_chained(acc, transform_name, env) ==
    IF transform_name \notin env.selected THEN acc
    ELSE LET next == try_transform(acc, transform_name, env)
         IN IF Len(next.saves) > Len(acc.saves)
            THEN [next EXCEPT !.self_image = next.saves[Len(next.saves)].content]
            ELSE next

\* the body of "for transform_name, func in transformations.items()" for one
\* transform_name
loop_body(acc, transform_name, env) ==
    IF transform_name \notin env.selected THEN acc
    ELSE try_transform(acc, transform_name, env)

\* the loop "for transform_name, func in transformations.items()" from the
\* i-th entry of transformations on (next: acc after the i-th pass)
RECURSIVE process_loop(_, _, _)
process_loop(acc, i, env) ==
    IF i > Len(transformations) THEN acc
    ELSE CHOOSE done \in
            {process_loop(next, i + 1, env) :
               next \in {loop_body(acc, transformations[i], env)}} : TRUE

\* process_image; computeFails and saveFails: the selected transforms whose
\* computation, and whose save, fails for a reason outside the program
process_image(computeFails, saveFails) ==
    /\ event' = "process_image"
    /\ IF image = NoImage \/ image_path = NoString
       THEN /\ messages' = <<[kind |-> "showerror", title |-> "No Image"]>>
            /\ calls' = <<>>
            /\ saves' = <<>>
            /\ displayed' = <<>>
            /\ summary_config' = <<>>
            /\ UNCHANGED image
       ELSE IF int_raises(pixel_size_entry)
       THEN /\ messages' = <<[kind |-> "showerror", title |-> "Input Error"]>>
            /\ calls' = <<>>
            /\ saves' = <<>>
            /\ displayed' = <<>>
            /\ summary_config' = <<>>
            /\ UNCHANGED image
       ELSE \E env \in {[pixel_size |-> int(pixel_size_entry),
                         directory |-> output_directory(save_directory, image_path),
                         image_path |-> image_path,
                         selected |-> transform_vars,
                         width |-> image.size[1],
                         height |-> image.size[2],
                         total_pixels |-> image.size[1] * image.size[2],
                         computeFails |-> computeFails,
                         saveFails |-> saveFails]} :
            \E done \in {process_loop(
                           [self_image |-> image,
                            summary_str |-> <<[name |-> <<"Original Image">>,
                                               width |-> env.width,
                                               height |-> env.height,
                                               total_pixels |-> env.total_pixels]>>,
                            messages |-> <<>>, calls |-> <<>>, saves |-> <<>>,
                            displayed |-> <<>>],
                           1, env)} :
               /\ image' = done.self_image
               /\ summary_config' = done.summary_str
               /\ messages' = done.messages
               /\ calls' = done.calls
               /\ saves' = done.saves
               /\ displayed' = done.displayed
    /\ UNCHANGED <<image_path, save_directory, pixel_size_entry, transform_vars,
                   file_label, info_label, save_dir_label, loaded, chosen, callVars>>

Init ==
    /\ AppInit
    /\ arg_image = NoImage
    /\ arg_pixel_size = 10
    /\ op = "none"
    /\ result = NoImage

Next ==
    \/ \E f \in SourceFiles : select_image(f.path)
    \/ select_image(<<>>)
    \/ \E d \in Directories \cup {<<>>} : select_save_directory(d)
    \/ \E text \in EntryTexts : edit_pixel_size_entry(text)
    \/ \E t \in TransformNames : toggle_transform(t)
    \/ \E computeFails \in SUBSET transform_vars :
          \E saveFails \in SUBSET (transform_vars \ computeFails) :
             process_image(computeFails, saveFails)

Spec == Init /\ [][Next]_vars

\* ------------------------------------------------ claims on the application

\* process_image ran last, with an image loaded
Processed == event = "process_image" /\ image # NoImage

\* the names of a sequence of records
NamesOf(records) == [i \in 1..Len(records) |-> records[i].name]

\* C5: a block size that is not an integer, or is zero or negative, is reported
\* as an error and the selected Grayscale and Invert are still applied and saved
C5_BadBlockSize ==
    (/\ Processed
     /\ \/ int_raises(pixel_size_entry)
        \/ int(pixel_size_entry) <= 0) =>
        /\ \E i \in 1..Len(messages) :
              messages[i].title \in {"Input Error", "Transformation Error"}
        /\ \A t \in transform_vars \cap {Grayscale, Invert} :
              \E i \in 1..Len(calls) :
                 /\ calls[i].name = t
                 /\ ~calls[i].raised => \E j \in 1..Len(saves) : saves[j].name = t

\* C6: with an integer block size every selected transform is attempted
\* exactly once, in the order Pixelate, Dot Mosaic, Grayscale, Invert, and
\* every one whose computation did not fail is saved, whatever failed before
C6_EveryTransformAttempted ==
    (Processed /\ ~int_raises(pixel_size_entry)) =>
        LET selected == SelectSeq(transformations, LAMBDA t : t \in transform_vars)
            computed == SelectSeq(calls, LAMBDA c : ~c.raised)
        IN /\ NamesOf(calls) = selected
           /\ NamesOf(saves) = NamesOf(computed)
           /\ \A i \in 1..Len(computed) :
                 saves[i].content = apply_transform(computed[i].name, loaded.image,
                                                    int(pixel_size_entry))
           /\ Len(messages) = Len(SelectSeq(calls, LAMBDA c : c.raised))
                                + Len(SelectSeq(saves, LAMBDA f : ~f.ok))

\* C6 witness: all four selected, Pixelate failed to compute, Dot Mosaic failed
\* to save, Grayscale and Invert were saved
C6_Witness ==
    /\ Processed
    /\ transform_vars = TransformNames
    /\ Len(calls) = 4
    /\ calls[1].raised
    /\ Len(saves) = 3
    /\ ~saves[1].ok
    /\ saves[2].ok
    /\ saves[3].ok /\ saves[3].name = Invert

\* C7: self.image and self.image_path are what the last successful
\* select_image loaded, and every transform call gets that image
C7_TransformsGetLoadedImage ==
    /\ image = loaded.image
    /\ image_path = loaded.path
    /\ \A i \in 1..Len(calls) : calls[i].input = loaded.image

\* C7 witness: all four transforms were computed and saved in one run
C7_Witness ==
    /\ Processed
    /\ Len(saves) = 4
    /\ \A i \in 1..4 : saves[i].ok /\ saves[i].content # loaded.image

\* what the claim derives from each source path: directory, base, extension
DerivedNames ==
    { [path |-> <<"/", "p", "/", "a", ".", "p", "n", "g">>,
       directory |-> <<"/", "p">>, base |-> <<"a">>, ext |-> <<".", "p", "n", "g">>],
      [path |-> <<"/", "b", ".", "t", ".", "g", "z">>,
       directory |-> <<"/">>, base |-> <<"b", ".", "t">>, ext |-> <<".", "g", "z">>] }

\* <transformname> of each transform
FileNameParts ==
    { [name |-> Pixelate, part |-> <<"p", "i", "x", "e", "l", "a", "t", "e">>],
      [name |-> DotMosaic, part |-> <<"d", "o", "t", "m", "o", "s", "a", "i", "c">>],
      [name |-> Grayscale, part |-> <<"g", "r", "a", "y", "s", "c", "a", "l", "e">>],
      [name |-> Invert, part |-> <<"i", "n", "v", "e", "r", "t">>] }

\* path names the file called file in directory
InDirectory(path, directory, file) ==
    \/ path = directory \o <<"/">> \o file
    \/ directory[Len(directory)] = "/" /\ path = directory \o file

\* C8: every file process_image saves is <base>_<transformname><ext> of the
\* current source image, in the directory chosen last, or in the directory of
\* the source image when none was ever chosen; no two files of a run share a name
C8_SavedFileNames ==
    Processed =>
        LET d == CHOOSE d \in DerivedNames : d.path = image_path
        IN /\ \A i \in 1..Len(saves) :
                 LET n == CHOOSE n \in FileNameParts : n.name = saves[i].name
                 IN InDirectory(saves[i].path,
                                IF chosen # NoString THEN chosen ELSE d.directory,
                                d.base \o <<"_">> \o n.part \o d.ext)
           /\ \A i, j \in 1..Len(saves) : i # j => saves[i].path # saves[j].path

\* C8 witness: a run saved all four files of /p/a.png into the chosen /o
C8_Witness ==
    /\ Processed
    /\ chosen = <<"/", "o">>
    /\ image_path = <<"/", "p", "/", "a", ".", "p", "n", "g">>
    /\ Len(saves) = 4
    /\ saves[2].path = <<"/", "o", "/", "a", "_", "d", "o", "t", "m", "o", "s", "a",
                         "i", "c", ".", "p", "n", "g">>

\* C10: for a block size >= 1 the columns, rows and blocks in the summary of
\* Pixelate and Dot Mosaic are those the transform iterated over
C10_SummaryBlockCounts ==
    Processed =>
        \A k \in 1..Len(summary_config) : \A i \in 1..Len(calls) :
           (/\ summary_config[k].name = calls[i].name
            /\ calls[i].name \in {Pixelate, DotMosaic}
            /\ calls[i].pixel_size >= 1) =>
               LET columns == Len(range(0, calls[i].input.size[1], calls[i].pixel_size))
                   rows == Len(range(0, calls[i].input.size[2], calls[i].pixel_size))
               IN /\ summary_config[k].blocks_x = columns
                  /\ summary_config[k].blocks_y = rows
                  /\ summary_config[k].total_blocks =
                        Len(block_origins(calls[i].input.size[1], calls[i].input.size[2],
                                          calls[i].pixel_size))

====
